---- MODULE Spec2Model ----
(***************************************************************************)
(* A model of the qbvisor / pyqb_client QuickBase client:                  *)
(*   - QuickBaseTransport._make_request (retry loop with backoff),         *)
(*   - QuickBaseMetaCache (app / table / field resolution and caching),    *)
(*   - the batch partition of QuickBaseClient.download_records_to_csv,     *)
(*   - the concurrent chunk and attachment engines of QuickBaseClient,     *)
(*   - QueryHelper.and_ / or_ / not_ (joining query expressions).          *)
(* Strings that the code compares case-insensitively are sequences of      *)
(* one-character strings, so that str.lower() is computed, not assumed.    *)
(***************************************************************************)
EXTENDS Integers, Sequences, FiniteSets, TLC

VARIABLES
  \* ---- QuickBaseTransport._make_request ----
  t_pc,        \* "idle" | "attempt" | "returned" | "raised"
  t_method,    \* "get" | "post" | "delete" | "none"
  t_attempt,   \* the loop variable `attempt`
  t_calls,     \* the outcomes of the calls method(url, ...) made so far
  t_sleeps,    \* the time.sleep calls made so far: [backoff, wait] in tenths of a second
  t_result,    \* the value returned to the caller, or NoValue
  t_error,     \* the outcome re-raised to the caller, or NoValue
  \* ---- QuickBaseClient.download_records_to_csv: the batch partition ----
  c_pc,           \* "args" | "batched"
  c_size,         \* the table size read from the metadata cache
  c_record_limit, \* the record_limit argument (None: not given)
  c_chunk_size,   \* the chunk_size argument
  c_total,        \* the local `total`
  c_batches,      \* the local `batches`: a sequence of <<offset, top>>
  \* ---- QuickBaseMetaCache: app resolution ----
  a_app_ids,      \* self.app_ids: the configured <<friendly name, app id>> pairs, in dict order
  a_log,          \* the normalize_app / get_app_id calls made so far: [op, arg, out]
  \* ---- QuickBaseMetaCache: tables and fields ----
  m_cache,        \* self.cache: app name -> table name -> [id, size, fields]
  m_last,         \* what the last metadata call did: arguments, outcome, requests sent
  m_calls,        \* the number of metadata calls made
  m_detail,       \* table id -> number of table-detail requests (tables/{id}) sent by
                  \* get_table / get_table_id calls
  m_detail_ok,    \* <<app name, table name>> -> number of table-detail responses received
  m_fm_fields,    \* table id -> number of field listings requested by get_field_map calls
  \* ---- the remote QuickBase realm, as the requests see it ----
  r_tables,       \* app id -> the table listing: a sequence of [id, name]
  r_next,         \* table id -> nextRecordId
  r_fields,       \* table id -> the field listing: a sequence of [id, label, fieldType]
  r_changes,      \* the number of remote changes made
  \* ---- QuickBaseClient: the chunk engine and the attachment engine ----
  f_mode,         \* "idle" | "records" | "attachments": the batch call in progress
  f_main,         \* the caller of asyncio.run: "idle" | "running" | "returned" | "raised"
  f_max,          \* the max_concurrency argument
  f_sem,          \* the free permits of the asyncio.Semaphore
  f_tasks,        \* one task per batch / job: [pc, attempt, offset, top, rows, path, ...]
  f_error,        \* the task whose exception asyncio.gather propagates (0: none)
  f_match,        \* whether the `where` filter matches the table's records
  f_result,       \* what the batch call returned, or NoValue
  f_dir,          \* whether the output directory has been created
  f_csv,          \* the number of rows of the CSV file written (None: no file)
  f_files,        \* destination path -> "absent" | "old" | "partial" | "new"
  \* ---- QueryHelper: and_ / or_ / not_ ----
  q_op,           \* the method called: "none" | "and_" | "or_" | "not_"
  q_args,         \* the *expressions argument: a sequence of strings
  q_out           \* the string returned

transportVars == <<t_pc, t_method, t_attempt, t_calls, t_sleeps, t_result, t_error>>
chunkVars == <<c_pc, c_size, c_record_limit, c_chunk_size, c_total, c_batches>>

appVars == <<a_app_ids, a_log>>
cacheVars == <<m_cache, m_last, m_calls, m_detail, m_detail_ok, m_fm_fields>>
remoteVars == <<r_tables, r_next, r_fields, r_changes>>
fetchVars == <<f_mode, f_main, f_max, f_sem, f_tasks, f_error, f_match, f_result,
               f_dir, f_csv, f_files>>

queryVars == <<q_op, q_args, q_out>>

vars == <<transportVars, chunkVars, appVars, cacheVars, remoteVars, fetchVars, queryVars>>

\* what each component leaves alone
notTransport == <<chunkVars, appVars, cacheVars, remoteVars, fetchVars, queryVars>>
notChunk == <<transportVars, appVars, cacheVars, remoteVars, fetchVars, queryVars>>
notApp == <<transportVars, chunkVars, cacheVars, remoteVars, fetchVars, queryVars>>
notMeta == <<transportVars, chunkVars, a_log, fetchVars, queryVars>>
notFetch == <<transportVars, appVars, cacheVars, remoteVars, queryVars>>
notQuery == <<transportVars, chunkVars, appVars, cacheVars, remoteVars, fetchVars>>

NoValue == [kind |-> "none"]

\* Python's None where the code tests an optional integer argument
None == -1

(***************************************************************************)
(* The state of each component before it is used.  A specification runs    *)
(* one component and leaves the others in this state.                      *)
(***************************************************************************)
TransportIdle ==
  /\ t_pc = "idle"
  /\ t_method = "none"
  /\ t_attempt = 0
  /\ t_calls = <<>>
  /\ t_sleeps = <<>>
  /\ t_result = NoValue
  /\ t_error = NoValue

AppIdle ==
  /\ a_app_ids = <<>>
  /\ a_log = <<>>

NoMetaCall ==
  [op |-> "none", table |-> <<>>, label |-> <<>>, kind |-> "none", value |-> <<>>,
   reqs |-> <<>>, key |-> <<>>, matched |-> <<>>,
   cached_before |-> FALSE, fields_before |-> <<>>]

MetaIdle ==
  /\ m_cache = <<>>
  /\ m_last = NoMetaCall
  /\ m_calls = 0
  /\ m_detail = <<>>
  /\ m_detail_ok = <<>>
  /\ m_fm_fields = <<>>
  /\ r_tables = <<>>
  /\ r_next = <<>>
  /\ r_fields = <<>>
  /\ r_changes = 0

FetchIdle ==
  /\ f_mode = "idle"
  /\ f_main = "idle"
  /\ f_max = 1
  /\ f_sem = 0
  /\ f_tasks = <<>>
  /\ f_error = 0
  /\ f_match = TRUE
  /\ f_result = NoValue
  /\ f_dir = FALSE
  /\ f_csv = None
  /\ f_files = <<>>

QueryIdle ==
  /\ q_op = "none"
  /\ q_args = <<>>
  /\ q_out = <<>>

ChunkIdle ==
  /\ c_pc = "args"
  /\ c_size = 0
  /\ c_record_limit = None
  /\ c_chunk_size = 1
  /\ c_total = 0
  /\ c_batches = <<>>

Min(a, b) == IF a <= b THEN a ELSE b

RECURSIVE Pow2(_)
Pow2(n) == IF n = 0 THEN 1 ELSE 2 * Pow2(n - 1)

(***************************************************************************)
(* QuickBaseTransport                                                      *)
(***************************************************************************)

\* transport.py:39  max_attempts = 5
max_attempts == 5
\* transport.py:40  delay = 1.0, in tenths of a second
delay == 10
\* transport.py:41  max_delay = 64.0, in tenths of a second
max_delay == 640

Methods == {"get", "post", "delete"}
Payloads == {"p1", "p2"}
\* random.uniform(0.5, 1.5), as tenths: the two ends of the band
Jitter == {5, 15}

\* What one call method(url, headers=..., params=..., json=...) can produce:
\* a response with a status, an optional Retry-After header (0: absent) and a
\* JSON body, a requests.RequestException raised by the call itself (no
\* response), or an exception that is not a RequestException.
Responses ==
  [kind : {"resp"}, status : {200}, retry_after : {0}, body : Payloads]
    \cup [kind : {"resp"}, status : {404, 503}, retry_after : {0}, body : {"err"}]
    \cup [kind : {"resp"}, status : {429}, retry_after : {7}, body : {"err"}]
    \cup [kind : {"neterr"}, status : {0}, retry_after : {0}, body : {"err"}]
    \cup [kind : {"other"}, status : {0}, retry_after : {0}, body : {"err"}]

\* requests.Response.raise_for_status (transport.py:46): HTTPError for 4xx and 5xx
raise_for_status_5xx(r) == r.kind = "resp" /\ r.status >= 500 /\ r.status < 600

raise_for_status(r) == r.kind = "resp" /\ r.status >= 400 /\ r.status < 600

\* the try body (transport.py:45-47) raises instead of returning resp.json()
Raised(r) == r.kind \in {"neterr", "other"} \/ raise_for_status(r)

\* transport.py:48  the exception is a requests.RequestException
IsRequestException(r) == r.kind \in {"neterr", "resp"}

\* transport.py:43  for attempt in range(max_attempts)
InRange(attempt) == attempt >= 0 /\ attempt < max_attempts

\* transport.py:49  the attempt after which the error is re-raised
IsLastAttempt_early(attempt) == attempt = max_attempts - 2

IsLastAttempt(attempt) == attempt = max_attempts - 1

\* transport.py:52  backoff = min(max_delay, delay * (2 ** attempt))
backoff_linear(attempt) == Min(max_delay, delay * (attempt + 1))

backoff(attempt) == Min(max_delay, delay * Pow2(attempt))

\* transport.py:53  wait = backoff * random.uniform(0.5, 1.5)
wait(attempt, j) == (backoff(attempt) * j) \div 10

\* get / post / delete: enter _make_request (transport.py:57-79, 38-43)
TransportCall(m) ==
  /\ UNCHANGED notTransport
  /\ t_pc \in {"idle", "returned", "raised"}
  /\ t_pc' = "attempt"
  /\ t_method' = m
  /\ t_attempt' = 0
  /\ t_calls' = <<>>
  /\ t_sleeps' = <<>>
  /\ t_result' = NoValue
  /\ t_error' = NoValue

\* one iteration of the for loop whose try body returns (transport.py:45-47)
AttemptReturns(r) ==
  /\ UNCHANGED notTransport
  /\ t_pc = "attempt"
  /\ InRange(t_attempt)
  /\ ~Raised(r)
  /\ t_calls' = Append(t_calls, r)
  /\ t_pc' = "returned"
  /\ t_result' = [kind |-> "json", body |-> r.body]
  /\ UNCHANGED <<t_method, t_attempt, t_sleeps, t_error>>

\* one iteration that lands in the except clause and sleeps (transport.py:48-55)
AttemptRetries(r, j) ==
  /\ UNCHANGED notTransport
  /\ t_pc = "attempt"
  /\ InRange(t_attempt)
  /\ Raised(r)
  /\ IsRequestException(r)
  /\ ~IsLastAttempt(t_attempt)
  /\ t_calls' = Append(t_calls, r)
  /\ t_sleeps' = Append(t_sleeps, [backoff |-> backoff(t_attempt), wait |-> wait(t_attempt, j)])
  /\ t_attempt' = t_attempt + 1
  /\ UNCHANGED <<t_pc, t_method, t_result, t_error>>

\* the iteration whose RequestException is re-raised (transport.py:49-51)
AttemptRaises(r) ==
  /\ UNCHANGED notTransport
  /\ t_pc = "attempt"
  /\ InRange(t_attempt)
  /\ Raised(r)
  /\ IsRequestException(r)
  /\ IsLastAttempt(t_attempt)
  /\ t_calls' = Append(t_calls, r)
  /\ t_pc' = "raised"
  /\ t_error' = r
  /\ UNCHANGED <<t_method, t_attempt, t_sleeps, t_result>>

\* an exception the except clause does not catch leaves the loop at once
AttemptEscapes(r) ==
  /\ UNCHANGED notTransport
  /\ t_pc = "attempt"
  /\ InRange(t_attempt)
  /\ Raised(r)
  /\ ~IsRequestException(r)
  /\ t_calls' = Append(t_calls, r)
  /\ t_pc' = "raised"
  /\ t_error' = r
  /\ UNCHANGED <<t_method, t_attempt, t_sleeps, t_result>>

TransportNext ==
  \/ \E m \in Methods : TransportCall(m)
  \/ \E r \in Responses : AttemptReturns(r)
  \/ \E r \in Responses, j \in Jitter : AttemptRetries(r, j)
  \/ \E r \in Responses : AttemptRaises(r)
  \/ \E r \in Responses : AttemptEscapes(r)

TransportInit == TransportIdle /\ ChunkIdle /\ AppIdle /\ MetaIdle /\ FetchIdle /\ QueryIdle

SpecTransport == TransportInit /\ [][TransportNext]_vars

\* what the caller's fake transport observes of one recorded attempt
Is2xx(r) == r.kind = "resp" /\ r.status \in 200..299
FailedRequest(r) == r.kind = "neterr" \/ (r.kind = "resp" /\ r.status \in 400..599)
AllFailed == \A i \in DOMAIN t_calls : FailedRequest(t_calls[i])
Finished == t_pc \in {"returned", "raised"}

\* C1: when every attempt of a get/post/delete call fails with a request
\* error, the call makes exactly 5 attempts and then raises the last error:
\* it never makes a 6th attempt and never returns a value.
C1_AlwaysFailingRaisesAfterFive ==
  /\ Len(t_calls) <= 5
  /\ AllFailed =>
       /\ t_result = NoValue
       /\ t_pc # "returned"
       /\ t_pc = "raised" => (Len(t_calls) = 5 /\ t_error = t_calls[5])
       /\ Len(t_calls) = 5 => t_pc = "raised"

C1_Witness ==
  /\ t_pc = "raised"
  /\ t_method \in Methods
  /\ Len(t_calls) = 5
  /\ AllFailed
  /\ t_error = t_calls[5]

\* C2: when the first k attempts fail (0 <= k <= 4) and attempt k+1 succeeds,
\* the call returns the JSON payload of attempt k+1 and exactly k+1 attempts
\* were made: a successful attempt is always the last one, and a returned
\* value is always the payload of a successful last attempt.
C2_ReturnsPayloadOfFirstSuccess ==
  /\ \A i \in DOMAIN t_calls :
       Is2xx(t_calls[i]) =>
         /\ i = Len(t_calls)
         /\ t_pc = "returned"
         /\ t_result = [kind |-> "json", body |-> t_calls[i].body]
  /\ t_pc = "returned" =>
       /\ Len(t_calls) \in 1..5
       /\ Is2xx(t_calls[Len(t_calls)])
       /\ \A i \in 1..(Len(t_calls) - 1) : FailedRequest(t_calls[i])
  /\ (t_pc = "attempt" /\ AllFailed /\ Len(t_calls) <= 4) => t_attempt = Len(t_calls)

C2_Witness ==
  /\ t_pc = "returned"
  /\ Len(t_calls) = 3
  /\ FailedRequest(t_calls[1]) /\ FailedRequest(t_calls[2])
  /\ t_result = [kind |-> "json", body |-> t_calls[3].body]


(***************************************************************************)
(* QuickBaseClient.download_records_to_csv: total and batches              *)
(***************************************************************************)

\* client.py:957  the per-request ceiling in min(chunk_size, 1000)
MaxTop == 1000

\* the largest table size, and the most batches, that are explored
MaxSize == 2500
MaxBatches == 12

\* the chunk_size arguments explored: below, at and above the ceiling
ChunkSizes == {1, 2, 3, 250, 500, 999, MaxTop, MaxTop + 1, 1500, 2000}
\* the record_limit arguments explored (0 is falsy like None)
RecordLimits == {None, 0, 1, 999, 2000, 2500}

\* range(start, stop, step) for step >= 1, as the sequence Python iterates
range(start, stop, step) ==
  LET n == IF stop > start THEN ((stop - start) + (step - 1)) \div step ELSE 0
  IN  [i \in 1..n |-> start + (i - 1) * step]

\* client.py:954  total = min(size, record_limit) if record_limit else size
total(size, record_limit) ==
  IF record_limit # None /\ record_limit # 0 THEN Min(size, record_limit) ELSE size

\* client.py:957  the `top` of every batch
top(chunk_size) == Min(chunk_size, MaxTop)

\* client.py:957  batches = [(o, min(chunk_size, 1000)) for o in range(0, total, chunk_size)]
batches(tot, chunk_size) ==
  LET offsets == range(0, tot, chunk_size)
  IN  [i \in DOMAIN offsets |-> <<offsets[i], top(chunk_size)>>]

ChunkInit ==
  /\ QueryIdle
  /\ TransportIdle
  /\ AppIdle
  /\ MetaIdle
  /\ FetchIdle
  /\ c_pc = "args"
  /\ c_size \in 0..MaxSize
  /\ c_record_limit \in RecordLimits
  /\ c_chunk_size \in ChunkSizes
  /\ c_size <= c_chunk_size * MaxBatches
  /\ c_total = 0
  /\ c_batches = <<>>

\* client.py:954-957  compute total and prepare the batches
PrepareBatches ==
  /\ c_pc = "args"
  /\ c_pc' = "batched"
  /\ c_total' = total(c_size, c_record_limit)
  /\ c_batches' = batches(total(c_size, c_record_limit), c_chunk_size)
  /\ UNCHANGED <<c_size, c_record_limit, c_chunk_size>>
  /\ UNCHANGED notChunk

ChunkNext == PrepareBatches

SpecChunks == ChunkInit /\ [][ChunkNext]_vars

Offset(i) == c_batches[i][1]
Top(i) == c_batches[i][2]

RECURSIVE SumTops(_)
SumTops(n) == IF n = 0 THEN 0 ELSE Top(n) + SumTops(n - 1)

\* C5: for every total >= 0 and chunk size c with 1 <= c <= 1000 the batches
\* have offsets 0, c, 2c, ... below total, every batch has size c except the
\* last, whose size is total minus its offset, and the sizes sum to total.
C5_ChunkSizesSumToTotal ==
  (c_pc = "batched" /\ c_chunk_size >= 1 /\ c_chunk_size <= MaxTop) =>
    LET n == Len(c_batches) IN
    /\ \A i \in 1..n : Offset(i) = (i - 1) * c_chunk_size /\ Offset(i) < c_total
    /\ (n = 0) = (c_total <= 0)
    /\ \A i \in 1..(n - 1) : Top(i) = c_chunk_size
    /\ n > 0 => Top(n) = c_total - Offset(n)
    /\ SumTops(n) = c_total

\* C6: for every chunk_size >= 1, also above the ceiling, every batch's limit
\* is at most the ceiling and the batches are contiguous: each offset is the
\* previous offset plus the previous limit, the first offset is 0 and the
\* last batch reaches total, so [0, total) is covered with no gap or overlap.
C6_ChunksContiguousUnderCeiling ==
  (c_pc = "batched" /\ c_chunk_size >= 1) =>
    LET n == Len(c_batches) IN
    /\ \A i \in 1..n : Top(i) <= MaxTop
    /\ \A i \in 2..n : Offset(i) = Offset(i - 1) + Top(i - 1)
    /\ n > 0 => (Offset(1) = 0 /\ Offset(n) + Top(n) >= c_total)
    /\ (n = 0) = (c_total <= 0)


(***************************************************************************)
(* QuickBaseMetaCache: normalize_app and get_app_id                        *)
(***************************************************************************)

\* the most configured apps, and the most calls made on one cache, that are
\* explored
MaxApps == 2
MaxAppCalls == 2

\* the friendly names explored (with case variants of one and of two
\* characters), and the app ids explored (some equal to a friendly name)
NameStrings == {<<"a">>, <<"A">>, <<"b">>, <<"a", "b">>, <<"A", "b">>}
IdStrings == {<<"a">>, <<"b">>}

\* str.lower() on one character, and on a string
UpperCase == <<"A", "B", "C", "D", "E", "F", "G", "H", "I", "J", "K", "L", "M",
               "N", "O", "P", "Q", "R", "S", "T", "U", "V", "W", "X", "Y", "Z">>
LowerCase == <<"a", "b", "c", "d", "e", "f", "g", "h", "i", "j", "k", "l", "m",
               "n", "o", "p", "q", "r", "s", "t", "u", "v", "w", "x", "y", "z">>
LowerMap ==
  [c \in {UpperCase[i] : i \in DOMAIN UpperCase} |->
     LowerCase[CHOOSE i \in DOMAIN UpperCase : UpperCase[i] = c]]
LowerChar(c) == IF c \in DOMAIN LowerMap THEN LowerMap[c] ELSE c
lower(s) == [i \in DOMAIN s |-> LowerChar(s[i])]

Ok(v) == [kind |-> "ok", value |-> v]
InputError == [kind |-> "InputError", value |-> <<>>]

\* the parsed QB_APP_IDS: a JSON object has distinct keys
AppConfigs ==
  {cfg \in UNION {[1..k -> NameStrings \X IdStrings] : k \in 1..MaxApps} :
     \A i, j \in DOMAIN cfg : i # j => cfg[i][1] # cfg[j][1]}

\* metadata.py:27  name_map = {name.lower(): name for name in parsed.keys()}
\* (a later name with the same lower-case form replaces an earlier one)
name_map(app_ids) ==
  [k \in {lower(app_ids[i][1]) : i \in DOMAIN app_ids} |->
     LET last == CHOOSE i \in DOMAIN app_ids :
                   /\ lower(app_ids[i][1]) = k
                   /\ \A j \in DOMAIN app_ids : lower(app_ids[j][1]) = k => j <= i
     IN  app_ids[last][1]]

\* self.app_ids[name]
app_id_of(app_ids, name) ==
  LET i == CHOOSE i \in DOMAIN app_ids : app_ids[i][1] = name IN app_ids[i][2]

\* metadata.py:31-40  normalize_app
normalize_app_case_sensitive(app_ids, app) ==
  IF \E i \in DOMAIN app_ids : app_ids[i][2] = app
  THEN LET first == CHOOSE i \in DOMAIN app_ids :
                      /\ app_ids[i][2] = app
                      /\ \A j \in DOMAIN app_ids : app_ids[j][2] = app => i <= j
       IN  Ok(app_ids[first][1])
  ELSE IF \E i \in DOMAIN app_ids : app_ids[i][1] = app THEN Ok(app) ELSE InputError

normalize_app_names_only(app_ids, app) ==
  LET key == lower(app) IN
  IF key \notin DOMAIN name_map(app_ids) THEN InputError ELSE Ok(name_map(app_ids)[key])

normalize_app(app_ids, app) ==
  IF \E i \in DOMAIN app_ids : app_ids[i][2] = app
  THEN LET first == CHOOSE i \in DOMAIN app_ids :
                      /\ app_ids[i][2] = app
                      /\ \A j \in DOMAIN app_ids : app_ids[j][2] = app => i <= j
       IN  Ok(app_ids[first][1])
  ELSE LET key == lower(app) IN
       IF key \notin DOMAIN name_map(app_ids)
       THEN InputError
       ELSE Ok(name_map(app_ids)[key])

\* metadata.py:42-44  get_app_id
get_app_id(app_ids, app) ==
  LET name == normalize_app(app_ids, app) IN
  IF name.kind = "InputError" THEN name ELSE Ok(app_id_of(app_ids, name.value))

\* metadata.py:20-29  __init__ with QB_APP_IDS set
AppInit ==
  /\ QueryIdle
  /\ TransportIdle
  /\ ChunkIdle
  /\ MetaIdle
  /\ FetchIdle
  /\ a_app_ids \in AppConfigs
  /\ a_log = <<>>

\* a caller invokes normalize_app(app)
NormalizeApp(app) ==
  /\ Len(a_log) < MaxAppCalls
  /\ a_log' = Append(a_log, [op |-> "normalize_app", arg |-> app,
                             out |-> normalize_app(a_app_ids, app)])
  /\ UNCHANGED a_app_ids
  /\ UNCHANGED notApp

\* a caller invokes get_app_id(app)
GetAppId(app) ==
  /\ Len(a_log) < MaxAppCalls
  /\ a_log' = Append(a_log, [op |-> "get_app_id", arg |-> app,
                             out |-> get_app_id(a_app_ids, app)])
  /\ UNCHANGED a_app_ids
  /\ UNCHANGED notApp

AppNext ==
  \/ \E app \in NameStrings \cup IdStrings : NormalizeApp(app)
  \/ \E app \in NameStrings \cup IdStrings : GetAppId(app)

SpecApp == AppInit /\ [][AppNext]_vars

\* the configured friendly names and ids, and equality ignoring case
FriendlyNames == {a_app_ids[i][1] : i \in DOMAIN a_app_ids}
KnownIds == {a_app_ids[i][2] : i \in DOMAIN a_app_ids}
CasePairs == {<<"a", "A">>, <<"A", "a">>, <<"b", "B">>, <<"B", "b">>,
              <<"f", "F">>, <<"F", "f">>, <<"t", "T">>, <<"T", "t">>}
EqIgnoreCase(s, t) ==
  /\ Len(s) = Len(t)
  /\ \A i \in DOMAIN s : s[i] = t[i] \/ <<s[i], t[i]>> \in CasePairs
\* calls i and j are normalize_app(N) and normalize_app(N') for a friendly
\* name N and a case variant N' of it
VariantCalls(i, j) ==
  /\ a_log[i].op = "normalize_app" /\ a_log[j].op = "normalize_app"
  /\ a_log[i].arg \in FriendlyNames
  /\ EqIgnoreCase(a_log[i].arg, a_log[j].arg)

\* C7 as stated: for every configured table and every friendly name N with a
\* case variant N', normalize_app returns the same canonical name for both.
C7_CaseVariantsResolveAlike ==
  \A i, j \in DOMAIN a_log : VariantCalls(i, j) => a_log[i].out = a_log[j].out

\* C7 amended: the same, provided neither N nor N' is itself one of the
\* configured app ids (an identifier equal to an app id resolves by id first).
C7_CaseVariantsResolveAlikeUnlessId ==
  \A i, j \in DOMAIN a_log :
    (VariantCalls(i, j) /\ a_log[i].arg \notin KnownIds /\ a_log[j].arg \notin KnownIds) =>
      (a_log[i].out = a_log[j].out /\ a_log[i].out.kind = "ok")

C7_Witness ==
  \E i, j \in DOMAIN a_log :
    /\ VariantCalls(i, j)
    /\ a_log[i].arg # a_log[j].arg
    /\ a_log[i].arg \notin KnownIds /\ a_log[j].arg \notin KnownIds
    /\ a_log[i].out = a_log[j].out
    /\ a_log[i].out.kind = "ok"

MatchesName(arg) == \E n \in FriendlyNames : EqIgnoreCase(n, arg)
MatchesId(arg) == arg \in KnownIds
\* name is a configured friendly name that arg denotes, by id or ignoring case
Denotes(arg, name) ==
  \E i \in DOMAIN a_app_ids :
    /\ a_app_ids[i][1] = name
    /\ (a_app_ids[i][2] = arg \/ EqIgnoreCase(name, arg))

\* C8: normalize_app / get_app_id fails with InputError exactly when the
\* identifier matches neither a friendly name (ignoring case) nor an app id;
\* otherwise normalize_app returns a configured name the identifier denotes
\* and get_app_id returns the id configured for such a name.
C8_InputErrorIffUnknown ==
  \A c \in DOMAIN a_log :
    LET call == a_log[c] IN
    /\ (call.out.kind = "InputError") = (~MatchesName(call.arg) /\ ~MatchesId(call.arg))
    /\ call.out.kind \in {"InputError", "ok"}
    /\ (call.op = "normalize_app" /\ call.out.kind = "ok") =>
         Denotes(call.arg, call.out.value)
    /\ (call.op = "get_app_id" /\ call.out.kind = "ok") =>
         \E i \in DOMAIN a_app_ids :
           /\ Denotes(call.arg, a_app_ids[i][1])
           /\ call.out.value = a_app_ids[i][2]

C8_Witness ==
  \E c, d \in DOMAIN a_log :
    /\ a_log[c].out.kind = "InputError"
    /\ a_log[d].op = "get_app_id" /\ a_log[d].out.kind = "ok"
    /\ a_log[d].arg \notin FriendlyNames
    /\ MatchesName(a_log[d].arg)


(***************************************************************************)
(* QuickBaseMetaCache: get_tables, get_table, get_fields, get_field_map,   *)
(* against a remote realm whose tables can be renamed and can grow         *)
(***************************************************************************)

\* the most metadata calls, and the most remote changes, that are explored
MaxMetaCalls == 2
MaxRemoteChanges == 1

\* QB_APP_IDS of the cache under study: two apps, as in tests/test_metadata.py
MetaConfig == << <<(<<"A">>), (<<"x">>)>>, <<(<<"B">>), (<<"y">>)>> >>
AppNames == {MetaConfig[i][1] : i \in DOMAIN MetaConfig}
\* the app arguments explored: a case variant of a name, and an app id
AppArgs == {<<"a">>, <<"x">>}

\* the remote tables of app "A" (app "B" has none) and the names they can take
TableIds == {<<"1">>, <<"2">>}
TableNames == {<<"t">>, <<"u">>}
\* the table arguments explored: an id, a case variant of a name, a name
TableArgs == {<<"1">>, <<"T">>, <<"u">>}
\* the fields a remote table can have, in listing order
FieldPool == << [id |-> 6, label |-> <<"f">>, fieldType |-> "text"],
                [id |-> 7, label |-> <<"F">>, fieldType |-> "file"] >>
\* the field_label arguments explored: the two labels, and an unknown one
FieldLabelArgs == {<<"f">>, <<"F">>, <<"g">>}

EmptyDict == <<>>

\* the value a call returned: the one element of the set of its results
TheOne(S) == CHOOSE x \in S : TRUE

\* one transport.get of a handler: request number n fails when f = n
\* (the transport raises after its retries), and succeeds otherwise
Req(path, arg, n, f) == [path |-> path, arg |-> arg, ok |-> (f # n)]

\* the outcome of a (part of a) handler: the cache it leaves, ok / InputError /
\* TransportError, the app name, table name and table id it resolved, the
\* requests it sent and the value it returns
Outcome(cache, kind, name, key, matched, reqs, value) ==
  [cache |-> cache, kind |-> kind, name |-> name, key |-> key,
   matched |-> matched, reqs |-> reqs, value |-> value]

\* metadata.py:70-73  the table of the listing that `table` denotes:
\* the first with that id, else the first with that name ignoring case (0: none)
MatchIndex(tables, table) ==
  IF \E i \in DOMAIN tables : tables[i].id = table
  THEN CHOOSE i \in DOMAIN tables :
         /\ tables[i].id = table
         /\ \A j \in DOMAIN tables : tables[j].id = table => i <= j
  ELSE IF \E i \in DOMAIN tables : lower(tables[i].name) = lower(table)
  THEN CHOOSE i \in DOMAIN tables :
         /\ lower(tables[i].name) = lower(table)
         /\ \A j \in DOMAIN tables : lower(tables[j].name) = lower(table) => i <= j
  ELSE 0

\* metadata.py:65-66  if name not in self.cache: self.cache[name] = {'tables': {}}
WithApp_always_resets(cache, name) ==
  [k \in DOMAIN cache \cup {name} |-> IF k = name THEN EmptyDict ELSE cache[k]]

WithApp(cache, name) ==
  [k \in DOMAIN cache \cup {name} |-> IF k \in DOMAIN cache THEN cache[k] ELSE EmptyDict]

\* metadata.py:84-88  self.cache[name]['tables'][tbl_name] = {id, size, fields: {}}
WithTable_without_size(cache, name, tbl_name, entry) ==
  [cache EXCEPT ![name] =
     [k \in DOMAIN cache[name] \cup {tbl_name} |->
        IF k = tbl_name THEN [entry EXCEPT !.size = None] ELSE cache[name][k]]]

WithTable(cache, name, tbl_name, entry) ==
  [cache EXCEPT ![name] =
     [k \in DOMAIN cache[name] \cup {tbl_name} |->
        IF k = tbl_name THEN entry ELSE cache[name][k]]]

\* metadata.py:81  if tbl_name not in self.cache[name]['tables']
cache_missing_always(cache, name, tbl_name) == TRUE

cache_missing(cache, name, tbl_name) == tbl_name \notin DOMAIN cache[name]

\* metadata.py:59-89  get_table, as request number n0 + 1 onwards of a handler
get_table(cache, app, table, n0, f) ==
  LET nm == normalize_app(a_app_ids, app) IN
  IF nm.kind = "InputError"
  THEN Outcome(cache, "InputError", <<>>, <<>>, <<>>, <<>>, <<>>)
  ELSE
    LET name    == nm.value
        c1      == WithApp(cache, name)
        listing == Req("tables", app_id_of(a_app_ids, name), n0 + 1, f)
    IN
    IF ~listing.ok
    THEN Outcome(c1, "TransportError", name, <<>>, <<>>, <<listing>>, <<>>)
    ELSE
      LET tables == r_tables[listing.arg]
          m      == MatchIndex(tables, table)
      IN
      IF m = 0
      THEN Outcome(c1, "InputError", name, <<>>, <<>>, <<listing>>, <<>>)
      ELSE
        LET tbl_name == tables[m].name
            tbl_id   == tables[m].id
            detail   == Req("table", tbl_id, n0 + 2, f)
            entry    == [id |-> tbl_id, size |-> r_next[tbl_id] - 1, fields |-> EmptyDict]
        IN
        IF ~cache_missing(c1, name, tbl_name)
        THEN Outcome(c1, "ok", name, tbl_name, tbl_id, <<listing>>, c1[name][tbl_name])
        ELSE IF ~detail.ok
        THEN Outcome(c1, "TransportError", name, tbl_name, tbl_id, <<listing, detail>>, <<>>)
        ELSE Outcome(WithTable(c1, name, tbl_name, entry), "ok", name, tbl_name, tbl_id,
                     <<listing, detail>>, entry)

\* metadata.py:117  fmap = {f['label']: {'id': f['id'], 'type': f.get('fieldType')} for f in fields}
\* (a dict keeps its keys in the order of their first insertion and, for
\* each key, the value assigned last: a sequence of key / value entries)
DictSet(d, key, value) ==
  IF \E i \in DOMAIN d : d[i].key = key
  THEN [i \in DOMAIN d |-> IF d[i].key = key THEN [key |-> key, value |-> value] ELSE d[i]]
  ELSE Append(d, [key |-> key, value |-> value])

RECURSIVE LabelMapUpTo(_, _)
LabelMapUpTo(fields, n) ==
  IF n = 0 THEN EmptyDict
  ELSE DictSet(LabelMapUpTo(fields, n - 1), fields[n].label,
               [id |-> fields[n].id, type |-> fields[n].fieldType])

LabelMap_first_only(fields) == LabelMapUpTo(fields, Min(1, Len(fields)))

LabelMap(fields) == LabelMapUpTo(fields, Len(fields))

\* metadata.py:95-121  get_fields, as request number n0 + 1 onwards of a handler
get_fields(cache, app, table, n0, f) ==
  LET nm == normalize_app(a_app_ids, app) IN
  IF nm.kind = "InputError"
  THEN Outcome(cache, "InputError", <<>>, <<>>, <<>>, <<>>, <<>>)
  ELSE
    \* metadata.py:102  info = self.get_table(app, table)
    TheOne({
      IF g.kind # "ok"
      THEN g
      ELSE
        LET tbl_id == g.value.id
            fields == Req("fields", tbl_id, n0 + Len(g.reqs) + 1, f)
            fmap   == LabelMap(r_fields[tbl_id])
        IN
        IF ~fields.ok
        THEN Outcome(g.cache, "TransportError", g.name, g.key, g.matched,
                     Append(g.reqs, fields), <<>>)
        ELSE Outcome([g.cache EXCEPT ![g.name][g.key].fields = fmap], "ok", g.name, g.key,
                     g.matched, Append(g.reqs, fields), fmap)
      : g \in {get_table(cache, nm.value, table, n0, f)} })

\* metadata.py:127  if not table_info.get('fields')
fields_missing_always(table_info) == TRUE

fields_missing(table_info) == table_info.fields = EmptyDict

\* metadata.py:123-129  get_field_map
get_field_map(cache, app, table, f) ==
  \* metadata.py:126  table_info = self.get_table(app, table)
  TheOne({
    IF t.kind # "ok"
    THEN t
    ELSE IF ~fields_missing(t.value)
    THEN [t EXCEPT !.value = t.value.fields]
    ELSE
      \* metadata.py:128  self.get_fields(app, table)
      TheOne({
        IF g.kind # "ok"
        THEN [g EXCEPT !.reqs = t.reqs \o g.reqs,
                       !.name = t.name, !.key = t.key, !.matched = t.matched]
        ELSE [g EXCEPT !.reqs = t.reqs \o g.reqs, !.value = g.cache[t.name][t.key].fields]
        : g \in {get_fields(t.cache, app, table, Len(t.reqs), f)} })
    : t \in {get_table(cache, app, table, 0, f)} })

\* metadata.py:131-137  get_field_id: lookup = {lbl.lower(): lbl for lbl in fmap}
\* maps a lower-cased label to the last label of fmap with that lower-case form
get_field_id(cache, app, table, field_label, f) ==
  TheOne({
    IF m.kind # "ok"
    THEN m
    ELSE
      LET fmap == m.value
          hits == {i \in DOMAIN fmap : lower(fmap[i].key) = lower(field_label)}
      IN
      IF hits = {}
      THEN [m EXCEPT !.kind = "InputError",
                     !.value = [options |-> [i \in DOMAIN fmap |-> fmap[i].key]]]
      ELSE LET last == CHOOSE i \in hits : \A j \in hits : j <= i
           IN  [m EXCEPT !.value = fmap[last].value.id]
    : m \in {get_field_map(cache, app, table, f)} })

\* the requests of one path (and argument) among the requests a call sent
ReqsTo(reqs, path) == {i \in DOMAIN reqs : reqs[i].path = path}
ReqsToArg(reqs, path, arg) == {i \in ReqsTo(reqs, path) : reqs[i].arg = arg}
OkReqsTo(reqs, path) == {i \in ReqsTo(reqs, path) : reqs[i].ok}

\* a handler returns or raises: the cache it leaves and what a fake transport
\* and the caller observe of the call
Record(op, app, table, field_label, res, value) ==
  LET resolved == res.key # <<>>
      cached   == /\ resolved
                  /\ res.name \in DOMAIN m_cache
                  /\ res.key \in DOMAIN m_cache[res.name]
  IN
  /\ m_cache' = res.cache
  /\ m_last' = [op |-> op, table |-> table, label |-> field_label, kind |-> res.kind,
                value |-> value, reqs |-> res.reqs,
                key |-> IF resolved THEN <<res.name, res.key>> ELSE <<>>,
                matched |-> res.matched,
                cached_before |-> cached,
                fields_before |-> IF cached THEN m_cache[res.name][res.key].fields
                                  ELSE EmptyDict]
  /\ m_calls' = m_calls + 1
  /\ m_detail' = [t \in TableIds |->
                    m_detail[t]
                      + IF op \in {"get_table", "get_table_id"}
                        THEN Cardinality(ReqsToArg(res.reqs, "table", t)) ELSE 0]
  /\ m_detail_ok' = [k \in DOMAIN m_detail_ok |->
                       m_detail_ok[k]
                         + IF resolved /\ k = <<res.name, res.key>>
                           THEN Cardinality(OkReqsTo(res.reqs, "table")) ELSE 0]
  /\ m_fm_fields' = [t \in TableIds |->
                       m_fm_fields[t]
                         + IF op = "get_field_map"
                           THEN Cardinality(ReqsToArg(res.reqs, "fields", t)) ELSE 0]
  /\ UNCHANGED <<a_app_ids, remoteVars>>
  /\ UNCHANGED notMeta

\* a caller invokes get_table(app, table)
GetTable(app, table, f) ==
  /\ m_calls < MaxMetaCalls
  /\ \E res \in {get_table(m_cache, app, table, 0, f)} :
       Record("get_table", app, table, <<>>, res, res.value)

\* metadata.py:91-93  a caller invokes get_table_id(app, table)
GetTableId(app, table, f) ==
  /\ m_calls < MaxMetaCalls
  /\ \E res \in {get_table(m_cache, app, table, 0, f)} :
       Record("get_table_id", app, table, <<>>, res, IF res.kind = "ok" THEN res.value.id ELSE <<>>)

\* a caller invokes get_fields(app, table)
GetFields(app, table, f) ==
  /\ m_calls < MaxMetaCalls
  /\ \E res \in {get_fields(m_cache, app, table, 0, f)} :
       Record("get_fields", app, table, <<>>, res, res.value)

\* a caller invokes get_field_map(app, table)
GetFieldMap(app, table, f) ==
  /\ m_calls < MaxMetaCalls
  /\ \E res \in {get_field_map(m_cache, app, table, f)} :
       Record("get_field_map", app, table, <<>>, res, res.value)

\* a caller invokes get_field_id(app, table, field_label)
GetFieldId(app, table, field_label, f) ==
  /\ m_calls < MaxMetaCalls
  /\ \E res \in {get_field_id(m_cache, app, table, field_label, f)} :
       Record("get_field_id", app, table, field_label, res, res.value)

\* the realm renames a table (two tables may then carry one name)
RemoteRename(i, new_name) ==
  /\ r_changes < MaxRemoteChanges
  /\ i \in DOMAIN r_tables[<<"x">>]
  /\ r_tables[<<"x">>][i].name # new_name
  /\ r_tables' = [r_tables EXCEPT ![<<"x">>][i].name = new_name]
  /\ r_changes' = r_changes + 1
  /\ UNCHANGED <<r_next, r_fields, a_app_ids, cacheVars>>
  /\ UNCHANGED notMeta

\* a record is added to a remote table: its nextRecordId grows
RemoteAddRecord(tid) ==
  /\ r_changes < MaxRemoteChanges
  /\ r_next' = [r_next EXCEPT ![tid] = r_next[tid] + 1]
  /\ r_changes' = r_changes + 1
  /\ UNCHANGED <<r_tables, r_fields, a_app_ids, cacheVars>>
  /\ UNCHANGED notMeta

\* a field is added to a remote table
RemoteAddField(tid) ==
  /\ r_changes < MaxRemoteChanges
  /\ Len(r_fields[tid]) < Len(FieldPool)
  /\ r_fields' = [r_fields EXCEPT ![tid] = Append(r_fields[tid], FieldPool[Len(r_fields[tid]) + 1])]
  /\ r_changes' = r_changes + 1
  /\ UNCHANGED <<r_tables, r_next, a_app_ids, cacheVars>>
  /\ UNCHANGED notMeta

\* metadata.py:20-29  a fresh cache, and the realm it talks to: table 1 "t"
\* with two records and one field, table 2 "u" with no record and no field
MetaInit ==
  /\ QueryIdle
  /\ TransportIdle
  /\ ChunkIdle
  /\ FetchIdle
  /\ a_app_ids = MetaConfig
  /\ a_log = <<>>
  /\ m_cache = EmptyDict
  /\ m_last = NoMetaCall
  /\ m_calls = 0
  /\ m_detail = [t \in TableIds |-> 0]
  /\ m_fm_fields = [t \in TableIds |-> 0]
  /\ m_detail_ok = [k \in AppNames \X TableNames |-> 0]
  /\ r_tables = [a \in {<<"x">>, <<"y">>} |->
                   IF a = <<"x">>
                   THEN << [id |-> <<"1">>, name |-> <<"t">>],
                           [id |-> <<"2">>, name |-> <<"u">>] >>
                   ELSE <<>>]
  /\ r_next = [t \in TableIds |-> IF t = <<"1">> THEN 3 ELSE 1]
  /\ r_fields = [t \in TableIds |-> IF t = <<"1">> THEN <<FieldPool[1]>> ELSE <<>>]
  /\ r_changes = 0

MetaNext ==
  \/ \E app \in AppArgs, table \in TableArgs, f \in 0..2 : GetTable(app, table, f)
  \/ \E app \in AppArgs, table \in TableArgs, f \in 0..2 : GetTableId(app, table, f)
  \/ \E app \in AppArgs, table \in TableArgs, f \in 0..3 : GetFields(app, table, f)
  \/ \E app \in AppArgs, table \in TableArgs, f \in 0..4 : GetFieldMap(app, table, f)
  \/ \E i \in 1..2, n \in TableNames : RemoteRename(i, n)
  \/ \E tid \in TableIds : RemoteAddRecord(tid)
  \/ \E tid \in TableIds : RemoteAddField(tid)

SpecMeta == MetaInit /\ [][MetaNext]_vars

\* the operations on the fields of a table, get_field_id included
MetaFieldsNext ==
  \/ \E app \in AppArgs, table \in TableArgs, f \in 0..3 : GetFields(app, table, f)
  \/ \E app \in AppArgs, table \in TableArgs, f \in 0..4 : GetFieldMap(app, table, f)
  \/ \E app \in AppArgs, table \in TableArgs, l \in FieldLabelArgs, f \in 0..4 :
       GetFieldId(app, table, l, f)
  \/ \E tid \in TableIds : RemoteAddField(tid)

SpecMetaFields == MetaInit /\ [][MetaFieldsNext]_vars

\* the operations that write the cache, called with one spelling of the app,
\* against a realm that changes
MetaCacheNext ==
  \/ \E table \in TableArgs, f \in 0..2 : GetTable(<<"a">>, table, f)
  \/ \E table \in TableArgs, f \in 0..3 : GetFields(<<"a">>, table, f)
  \/ \E table \in TableArgs, f \in 0..4 : GetFieldMap(<<"a">>, table, f)
  \/ \E i \in 1..2, n \in TableNames : RemoteRename(i, n)
  \/ \E tid \in TableIds : RemoteAddRecord(tid)
  \/ \E tid \in TableIds : RemoteAddField(tid)

SpecMetaCache == MetaInit /\ [][MetaCacheNext]_vars


Cached(k) == k[1] \in DOMAIN m_cache /\ k[2] \in DOMAIN m_cache[k[1]]
LastIsGetTable == m_last.op \in {"get_table", "get_table_id"}
LastDetailReqs == Cardinality(ReqsTo(m_last.reqs, "table"))
LastFieldReqs == Cardinality(ReqsTo(m_last.reqs, "fields"))

\* C9 as stated: over any sequence of get_table / get_table_id calls the
\* table-detail request tables/{id} is issued at most once per table.
C9_DetailRequestedAtMostOnce ==
  \A t \in TableIds : m_detail[t] <= 1

\* C9 amended: the table-detail request is answered at most once per cached
\* (app, table name) entry; a call issues it only when the cache holds no
\* entry for the table name it resolves to, and at most once, so a call that
\* resolves to an entry an earlier call cached issues no table-detail request.
C9_DetailOncePerCachedEntry ==
  /\ \A k \in DOMAIN m_detail_ok :
       /\ m_detail_ok[k] <= 1
       /\ (m_detail_ok[k] = 1) = Cached(k)
  /\ LastIsGetTable =>
       /\ LastDetailReqs <= 1
       /\ m_last.cached_before => (LastDetailReqs = 0 /\ m_last.kind = "ok")
       /\ (m_last.kind = "ok" /\ ~m_last.cached_before) => LastDetailReqs = 1

C9_Witness ==
  /\ m_calls = 2
  /\ m_last.op = "get_table_id"
  /\ m_last.kind = "ok"
  /\ m_last.cached_before
  /\ LastDetailReqs = 0
  /\ m_detail_ok[m_last.key] = 1
  /\ m_detail[m_last.value] = 1

\* C10 as stated: for every table the first get_field_map call populates the
\* field map with one remote field listing and every later get_field_map call
\* for that table issues no field-listing request: get_field_map calls send
\* at most one field listing per table in all.
C10_FieldListingOnlyOnFirstCall ==
  \A t \in TableIds : m_fm_fields[t] <= 1

\* C10 amended: a get_field_map call issues a field-listing request exactly
\* when the field map cached for the table entry it resolves to is empty, and
\* then only one, which populates the entry; when a non-empty map is cached
\* it issues no field-listing request and returns the cached map unchanged.
C10_FieldListingOnlyWhenMapEmpty ==
  m_last.op = "get_field_map" =>
    /\ LastFieldReqs <= 1
    /\ m_last.fields_before # EmptyDict =>
         /\ LastFieldReqs = 0
         /\ m_last.kind = "ok"
         /\ m_last.value = m_last.fields_before
         /\ m_cache[m_last.key[1]][m_last.key[2]].fields = m_last.fields_before
    /\ (m_last.kind = "ok" /\ m_last.fields_before = EmptyDict) =>
         /\ LastFieldReqs = 1
         /\ m_last.value = m_cache[m_last.key[1]][m_last.key[2]].fields

C10_Witness ==
  /\ m_calls = 2
  /\ m_last.op = "get_field_map"
  /\ m_last.kind = "ok"
  /\ m_last.fields_before # EmptyDict
  /\ LastFieldReqs = 0
  /\ m_last.value = m_last.fields_before
  /\ m_fm_fields[m_last.matched] = 1


(***************************************************************************)
(* QuickBaseClient: _fetch_chunk / _gather_chunks / download_records_to_csv *)
(* and _async_download_attachment(s), as asyncio tasks on one event loop   *)
(***************************************************************************)

\* the largest table, the most attachment jobs and the largest
\* max_concurrency that are explored
MaxFetchSize == 2
MaxJobs == 2
MaxConcurrency == 2

\* client.py:870  max_retries = 5
max_retries == 5

\* the chunk_size and record_limit arguments explored by the engine
FetchChunkSizes == {1, 2}
FetchLimits == {None}

\* client.py:871  base_delay = 0.5, in tenths of a second
base_delay == 5
\* client.py:872  max_delay = 10.0, in tenths of a second
fetch_max_delay == 100
\* random.uniform(0.8, 1.2), as tenths: the two ends of the band
ChunkJitter == {8, 12}

\* a Retry-After header that is an HTTP-date, not a number of seconds
HttpDate == -1

\* what one session.post / session.get can produce: a response with a status
\* and a Retry-After header (0: absent, a number of seconds, or an HTTP-date),
\* or an exception raised by the client (connection error)
ChunkResponses ==
  [kind : {"resp"}, status : {200, 400, 429, 503}, retry_after : {0}]
    \cup [kind : {"resp"}, status : {429}, retry_after : {3, HttpDate}]
    \cup [kind : {"neterr"}, status : {0}, retry_after : {0}]

\* the destination paths target_dir/{record_id}_{file_name} of the jobs explored
Paths == {<<1, "a">>, <<2, "a">>}

\* one task of a batch: its position, its arguments, and what it has done so
\* far (requests sent, what save_path.exists() found, whether it opened its
\* file for writing) and, while it sleeps before a retry, the status that
\* caused the retry, the pre-jitter delay and the time it sleeps; a chunk task
\* also has the request body `b` it is bound to, as <<skip, top>>, and the
\* bodies it has posted
Task(pc, offset, tp, path) ==
  [pc |-> pc, attempt |-> 0, offset |-> offset, top |-> tp, rows |-> 0, path |-> path,
   sent |-> 0, seen |-> "none", wrote |-> FALSE,
   cause |-> 0, delay |-> 0, wait |-> 0,
   body |-> <<>>, posted |-> {}]

\* client.py:903-909  `async def task(off, b=body)`: the default value binds
\* the body built in the same iteration of the loop
BoundBody_late(batch_params, i) == batch_params[Len(batch_params)]

BoundBody(batch_params, i) == batch_params[i]

\* client.py:1010  save_path.exists()
exists_never(files, path) == FALSE

exists(files, path) == files[path] # "absent"

\* asyncio.Semaphore.acquire returns without waiting
CanAcquire_ungated(sem) == TRUE

CanAcquire(sem) == sem > 0

\* client.py:877  resp.status in (429, 502, 503) and attempt < max_retries
ShouldRetry_unbounded(r, attempt) ==
  r.kind = "resp" /\ r.status \in {429, 502, 503}

ShouldRetry(r, attempt) ==
  r.kind = "resp" /\ r.status \in {429, 502, 503} /\ attempt < max_retries

\* client.py:876, 884  session.post raises, or resp.raise_for_status() does
ChunkRaises(r) == r.kind = "neterr" \/ r.status >= 400

\* client.py:879  float(retry) raises ValueError
BadRetryAfter(r) == r.retry_after = HttpDate

\* client.py:879  min(max_delay, base_delay * 2 ** attempt)
chunk_delay_as_transport(attempt) == backoff(attempt)

chunk_delay(attempt) == Min(fetch_max_delay, base_delay * Pow2(attempt))

\* client.py:878-879  wait = float(retry) if retry else delay * uniform(0.8, 1.2)
chunk_wait(r, attempt, j) ==
  IF r.retry_after # 0 THEN r.retry_after * 10 ELSE (chunk_delay(attempt) * j) \div 10

\* the rows the realm returns for options {skip: offset, top: top}
RowsFor(offset, tp) ==
  IF f_match /\ c_size > offset THEN Min(tp, c_size - offset) ELSE 0

Settled(t) == t.pc \in {"done", "failed", "skipped", "cancelled"}
HoldsPermit_not_sleeping(t) == t.pc \in {"request", "writing"}

HoldsPermit(t) == t.pc \in {"request", "sleeping", "writing"}

\* client.py:914  asyncio.gather(*tasks) has a result: every chunk task returned
AllReturned_return_exceptions == \A i \in DOMAIN f_tasks : f_tasks[i].pc \in {"done", "failed"}

AllReturned == \A i \in DOMAIN f_tasks : f_tasks[i].pc = "done"

\* client.py:1051  every download task returned (a failed download is caught
\* inside its task, which then returns)
AllJobsFinished_or_one_failed ==
  \/ \E i \in DOMAIN f_tasks : f_tasks[i].pc = "failed"
  \/ \A i \in DOMAIN f_tasks : f_tasks[i].pc \in {"done", "skipped", "failed"}

AllJobsFinished == \A i \in DOMAIN f_tasks : f_tasks[i].pc \in {"done", "skipped", "failed"}

RECURSIVE SumRows(_, _)
SumRows(tasks, n) == IF n = 0 THEN 0 ELSE tasks[n].rows + SumRows(tasks, n - 1)

FetchInit ==
  /\ QueryIdle
  /\ TransportIdle
  /\ ChunkIdle
  /\ AppIdle
  /\ MetaIdle
  /\ FetchIdle

\* client.py:942-964, 898-914  download_records_to_csv up to asyncio.gather:
\* the batches, the output directory, the semaphore and one task per batch
StartRecords(size, chunk_size, record_limit, max_concurrency, match) ==
  /\ f_main = "idle"
  /\ c_pc' = "batched"
  /\ c_size' = size
  /\ c_chunk_size' = chunk_size
  /\ c_record_limit' = record_limit
  /\ c_total' = total(size, record_limit)
  /\ c_batches' = batches(total(size, record_limit), chunk_size)
  /\ f_mode' = "records"
  /\ f_main' = "running"
  /\ f_max' = max_concurrency
  /\ f_sem' = max_concurrency
  /\ f_match' = match
  /\ f_dir' = TRUE
  /\ f_tasks' = [i \in DOMAIN c_batches' |->
                   [Task("created", c_batches'[i][1], c_batches'[i][2], <<>>)
                      EXCEPT !.body = BoundBody(c_batches', i)]]
  /\ UNCHANGED <<f_error, f_result, f_csv, f_files>>
  /\ UNCHANGED notFetch

\* client.py:910-911, 876  a chunk task enters `async with sem` and posts
ChunkAcquire(i) ==
  /\ f_mode = "records" /\ f_main = "running"
  /\ f_tasks[i].pc = "created"
  /\ CanAcquire(f_sem)
  /\ f_sem' = f_sem - 1
  /\ f_tasks' = [f_tasks EXCEPT ![i].pc = "request", ![i].sent = @ + 1,
                                ![i].posted = @ \cup {f_tasks[i].body}]
  /\ UNCHANGED <<f_mode, f_main, f_max, f_error, f_match, f_result, f_dir, f_csv, f_files>>
  /\ UNCHANGED <<chunkVars, notFetch>>

\* client.py:877-883  a retryable status: the task sleeps, keeping its permit
ChunkRetry(i, r, j) ==
  /\ f_mode = "records" /\ f_main = "running"
  /\ f_tasks[i].pc = "request"
  /\ ShouldRetry(r, f_tasks[i].attempt)
  /\ ~BadRetryAfter(r)
  /\ f_tasks' = [f_tasks EXCEPT ![i].pc = "sleeping",
                                ![i].cause = r.status,
                                ![i].delay = IF r.retry_after # 0 THEN 0
                                             ELSE chunk_delay(f_tasks[i].attempt),
                                ![i].wait = chunk_wait(r, f_tasks[i].attempt, j)]
  /\ UNCHANGED <<f_mode, f_main, f_max, f_sem, f_error, f_match, f_result, f_dir, f_csv, f_files>>
  /\ UNCHANGED <<chunkVars, notFetch>>

\* client.py:881-883  the sleep ends: attempt += 1 and the request is sent again
ChunkWake(i) ==
  /\ f_mode = "records" /\ f_main = "running"
  /\ f_tasks[i].pc = "sleeping"
  /\ f_tasks' = [f_tasks EXCEPT ![i].pc = "request", ![i].attempt = @ + 1,
                                ![i].sent = @ + 1,
                                ![i].posted = @ \cup {f_tasks[i].body},
                                ![i].cause = 0, ![i].delay = 0, ![i].wait = 0]
  /\ UNCHANGED <<f_mode, f_main, f_max, f_sem, f_error, f_match, f_result, f_dir, f_csv, f_files>>
  /\ UNCHANGED <<chunkVars, notFetch>>

\* client.py:876, 879, 884  the task raises: the permit is released and
\* gather takes the first exception raised
ChunkFails(i, r) ==
  /\ f_mode = "records" /\ f_main = "running"
  /\ f_tasks[i].pc = "request"
  /\ IF ShouldRetry(r, f_tasks[i].attempt) THEN BadRetryAfter(r) ELSE ChunkRaises(r)
  /\ f_tasks' = [f_tasks EXCEPT ![i].pc = "failed"]
  /\ f_sem' = f_sem + 1
  /\ f_error' = IF f_error = 0 THEN i ELSE f_error
  /\ UNCHANGED <<f_mode, f_main, f_max, f_match, f_result, f_dir, f_csv, f_files>>
  /\ UNCHANGED <<chunkVars, notFetch>>

\* client.py:885-891  the task returns its rows and releases the permit
ChunkSucceeds(i, r) ==
  /\ f_mode = "records" /\ f_main = "running"
  /\ f_tasks[i].pc = "request"
  /\ ~ShouldRetry(r, f_tasks[i].attempt)
  /\ ~ChunkRaises(r)
  /\ f_tasks' = [f_tasks EXCEPT ![i].pc = "done",
                                ![i].rows = RowsFor(f_tasks[i].body[1], f_tasks[i].body[2])]
  /\ f_sem' = f_sem + 1
  /\ UNCHANGED <<f_mode, f_main, f_max, f_error, f_match, f_result, f_dir, f_csv, f_files>>
  /\ UNCHANGED <<chunkVars, notFetch>>

\* client.py:914, 963-965  gather re-raises the first exception; asyncio.run
\* cancels the tasks that have not finished, and the call raises
RecordsAbort ==
  /\ f_mode = "records" /\ f_main = "running"
  /\ f_error # 0
  /\ f_main' = "raised"
  /\ f_result' = [kind |-> "error", task |-> f_error]
  /\ f_tasks' = [i \in DOMAIN f_tasks |->
                   IF Settled(f_tasks[i]) THEN f_tasks[i]
                   ELSE [f_tasks[i] EXCEPT !.pc = "cancelled"]]
  /\ f_sem' = f_sem + Cardinality({i \in DOMAIN f_tasks : HoldsPermit(f_tasks[i])})
  /\ UNCHANGED <<f_mode, f_max, f_error, f_match, f_dir, f_csv, f_files>>
  /\ UNCHANGED <<chunkVars, notFetch>>

\* client.py:963-978  every chunk returned: flatten, and write the CSV unless
\* there is no record
RecordsFinish ==
  /\ f_mode = "records" /\ f_main = "running"
  /\ AllReturned
  /\ f_main' = "returned"
  /\ LET records == SumRows(f_tasks, Len(f_tasks)) IN
     IF records = 0
     THEN /\ f_result' = [kind |-> "ok", value |-> "", rows |-> 0]
          /\ f_csv' = f_csv
     ELSE /\ f_result' = [kind |-> "ok", value |-> "out_csv", rows |-> records]
          /\ f_csv' = records
  /\ UNCHANGED <<f_mode, f_max, f_sem, f_tasks, f_error, f_match, f_dir, f_files>>
  /\ UNCHANGED <<chunkVars, notFetch>>

\* client.py:1079, 1031-1051  download_attachments_async creates target_dir;
\* _async_download_attachments makes the semaphore and one task per job
StartAttachments(jobs, existing, max_concurrency) ==
  /\ f_main = "idle"
  /\ f_mode' = "attachments"
  /\ f_main' = "running"
  /\ f_max' = max_concurrency
  /\ f_sem' = max_concurrency
  /\ f_dir' = TRUE
  /\ f_files' = [p \in Paths |-> IF p \in existing THEN "old" ELSE "absent"]
  /\ f_tasks' = [i \in DOMAIN jobs |-> Task("created", 0, 0, jobs[i])]
  /\ UNCHANGED <<f_error, f_match, f_result, f_csv>>
  /\ UNCHANGED <<chunkVars, notFetch>>

\* client.py:1010-1016  the task starts: it returns if save_path exists, else
\* it enters `async with sem` (waiting if no permit is free) and sends the GET
AttachmentStart(i) ==
  /\ f_mode = "attachments" /\ f_main = "running"
  /\ f_tasks[i].pc = "created"
  /\ LET found == f_files[f_tasks[i].path] IN
     IF exists(f_files, f_tasks[i].path)
     THEN /\ f_tasks' = [f_tasks EXCEPT ![i].pc = "skipped", ![i].seen = found]
          /\ f_sem' = f_sem
     ELSE IF CanAcquire(f_sem)
     THEN /\ f_tasks' = [f_tasks EXCEPT ![i].pc = "request", ![i].seen = found,
                                        ![i].sent = @ + 1]
          /\ f_sem' = f_sem - 1
     ELSE /\ f_tasks' = [f_tasks EXCEPT ![i].pc = "waiting", ![i].seen = found]
          /\ f_sem' = f_sem
  /\ UNCHANGED <<f_mode, f_main, f_max, f_error, f_match, f_result, f_dir, f_csv, f_files>>
  /\ UNCHANGED <<chunkVars, notFetch>>

\* client.py:1014-1016  a waiting task gets a permit and sends the GET
AttachmentAcquire(i) ==
  /\ f_mode = "attachments" /\ f_main = "running"
  /\ f_tasks[i].pc = "waiting"
  /\ CanAcquire(f_sem)
  /\ f_sem' = f_sem - 1
  /\ f_tasks' = [f_tasks EXCEPT ![i].pc = "request", ![i].sent = @ + 1]
  /\ UNCHANGED <<f_mode, f_main, f_max, f_error, f_match, f_result, f_dir, f_csv, f_files>>
  /\ UNCHANGED <<chunkVars, notFetch>>

\* client.py:1016-1018  the response is good and aiofiles.open(save_path, 'wb')
\* creates (or truncates) the file
AttachmentOpens(i, r) ==
  /\ f_mode = "attachments" /\ f_main = "running"
  /\ f_tasks[i].pc = "request"
  /\ ~ChunkRaises(r)
  /\ f_tasks' = [f_tasks EXCEPT ![i].pc = "writing", ![i].wrote = TRUE]
  /\ f_files' = [f_files EXCEPT ![f_tasks[i].path] = "partial"]
  /\ UNCHANGED <<f_mode, f_main, f_max, f_sem, f_error, f_match, f_result, f_dir, f_csv>>
  /\ UNCHANGED <<chunkVars, notFetch>>

\* client.py:1016-1017, 1022-1023  session.get or raise_for_status raises:
\* the exception is caught and logged, the permit released
AttachmentFails(i, r) ==
  /\ f_mode = "attachments" /\ f_main = "running"
  /\ f_tasks[i].pc = "request"
  /\ ChunkRaises(r)
  /\ f_tasks' = [f_tasks EXCEPT ![i].pc = "failed"]
  /\ f_sem' = f_sem + 1
  /\ UNCHANGED <<f_mode, f_main, f_max, f_error, f_match, f_result, f_dir, f_csv, f_files>>
  /\ UNCHANGED <<chunkVars, notFetch>>

\* client.py:1019-1021  every chunk of the body is written
AttachmentWritten(i) ==
  /\ f_mode = "attachments" /\ f_main = "running"
  /\ f_tasks[i].pc = "writing"
  /\ f_tasks' = [f_tasks EXCEPT ![i].pc = "done"]
  /\ f_files' = [f_files EXCEPT ![f_tasks[i].path] = "new"]
  /\ f_sem' = f_sem + 1
  /\ UNCHANGED <<f_mode, f_main, f_max, f_error, f_match, f_result, f_dir, f_csv>>
  /\ UNCHANGED <<chunkVars, notFetch>>

\* client.py:1019-1023  reading the body or writing a chunk raises: caught
\* and logged, the file stays as far as it was written
AttachmentWriteFails(i) ==
  /\ f_mode = "attachments" /\ f_main = "running"
  /\ f_tasks[i].pc = "writing"
  /\ f_tasks' = [f_tasks EXCEPT ![i].pc = "failed"]
  /\ f_sem' = f_sem + 1
  /\ UNCHANGED <<f_mode, f_main, f_max, f_error, f_match, f_result, f_dir, f_csv, f_files>>
  /\ UNCHANGED <<chunkVars, notFetch>>

\* client.py:1051-1052  gather returns once every task has returned: the
\* output list has one entry per job
AttachmentsFinish ==
  /\ f_mode = "attachments" /\ f_main = "running"
  /\ AllJobsFinished
  /\ f_main' = "returned"
  /\ f_result' = [kind |-> "ok", value |-> [i \in DOMAIN f_tasks |-> f_tasks[i].path]]
  /\ UNCHANGED <<f_mode, f_max, f_sem, f_tasks, f_error, f_match, f_dir, f_csv, f_files>>
  /\ UNCHANGED <<chunkVars, notFetch>>

JobLists == UNION {[1..k -> Paths] : k \in 0..MaxJobs}

FetchNext ==
  \/ \E size \in 0..MaxFetchSize, chunk_size \in FetchChunkSizes, limit \in FetchLimits,
        n \in 1..MaxConcurrency, match \in BOOLEAN :
       StartRecords(size, chunk_size, limit, n, match)
  \/ \E i \in DOMAIN f_tasks : ChunkAcquire(i)
  \/ \E i \in DOMAIN f_tasks, r \in ChunkResponses, j \in ChunkJitter : ChunkRetry(i, r, j)
  \/ \E i \in DOMAIN f_tasks : ChunkWake(i)
  \/ \E i \in DOMAIN f_tasks, r \in ChunkResponses : ChunkFails(i, r)
  \/ \E i \in DOMAIN f_tasks, r \in ChunkResponses : ChunkSucceeds(i, r)
  \/ RecordsAbort
  \/ RecordsFinish
  \/ \E jobs \in JobLists, existing \in SUBSET Paths, n \in 1..MaxConcurrency :
       StartAttachments(jobs, existing, n)
  \/ \E i \in DOMAIN f_tasks : AttachmentStart(i)
  \/ \E i \in DOMAIN f_tasks : AttachmentAcquire(i)
  \/ \E i \in DOMAIN f_tasks, r \in ChunkResponses : AttachmentOpens(i, r)
  \/ \E i \in DOMAIN f_tasks, r \in ChunkResponses : AttachmentFails(i, r)
  \/ \E i \in DOMAIN f_tasks : AttachmentWritten(i)
  \/ \E i \in DOMAIN f_tasks : AttachmentWriteFails(i)
  \/ AttachmentsFinish

SpecFetch == FetchInit /\ [][FetchNext]_vars

\* the responses that decide how a chunk fetch goes on: it returns (200),
\* it retries (503) or it raises (400)
LiveResponses == {r \in ChunkResponses : r.retry_after = 0 /\ r.status \in {200, 400, 503}}
\* one value of random.uniform(0.8, 1.2): the length of a sleep does not
\* change what follows it
LiveJitter == {8}

\* the steps of a batch of chunks
RecordsNext ==
  \/ \E size \in 0..MaxFetchSize, chunk_size \in FetchChunkSizes, limit \in FetchLimits,
        n \in 1..MaxConcurrency, match \in BOOLEAN :
       StartRecords(size, chunk_size, limit, n, match)
  \/ \E i \in DOMAIN f_tasks : ChunkAcquire(i)
  \/ \E i \in DOMAIN f_tasks, r \in LiveResponses, j \in LiveJitter : ChunkRetry(i, r, j)
  \/ \E i \in DOMAIN f_tasks : ChunkWake(i)
  \/ \E i \in DOMAIN f_tasks, r \in LiveResponses : ChunkFails(i, r)
  \/ \E i \in DOMAIN f_tasks, r \in LiveResponses : ChunkSucceeds(i, r)
  \/ RecordsAbort
  \/ RecordsFinish

\* the event loop runs every task that is ready and every request gets a
\* response: some step of the batch is taken as long as one is possible
SpecFetchLive == FetchInit /\ [][RecordsNext]_vars /\ WF_vars(RecordsNext)

(***************************************************************************)
(* QueryHelper.and_ / or_ / not_  (query_helper.py:58-74)                  *)
(*                                                                         *)
(* A string is a sequence of one-character strings.  The three methods are *)
(* str.join over the tuple of expressions with the separator "AND", "OR"   *)
(* or "NOT".                                                               *)
(***************************************************************************)

\* the longest *expressions tuple passed
MaxExprs == 3

\* query expressions as QueryHelper.expr builds them (query_helper.py:56),
\* shortened to "{6}", "{7}", "{8}"
Exprs == {<<"{", "6", "}">>, <<"{", "7", "}">>, <<"{", "8", "}">>}

RECURSIVE TuplesUpTo(_, _)
\* the tuples of at most n elements of S
TuplesUpTo(S, n) ==
  IF n = 0 THEN {<<>>}
  ELSE LET shorter == TuplesUpTo(S, n - 1)
       IN shorter \cup {Append(xs, x) : xs \in {ys \in shorter : Len(ys) = n - 1}, x \in S}

RECURSIVE join(_, _)
\* str.join: the elements in order with sep between consecutive ones; the
\* empty tuple gives "", a tuple of one gives that element
join(sep, xs) ==
  IF xs = <<>> THEN <<>>
  ELSE IF Len(xs) = 1 THEN xs[1]
  ELSE xs[1] \o sep \o join(sep, Tail(xs))

\* query_helper.py:58-62
and_(expressions) == join(<<"A", "N", "D">>, expressions)

\* query_helper.py:64-68
or_(expressions) == join(<<"O", "R">>, expressions)

\* query_helper.py:70-74
not_(expressions) == join(<<"N", "O", "T">>, expressions)

And(expressions) ==
  /\ q_op' = "and_"
  /\ q_args' = expressions
  /\ q_out' = and_(expressions)
  /\ UNCHANGED notQuery

Or(expressions) ==
  /\ q_op' = "or_"
  /\ q_args' = expressions
  /\ q_out' = or_(expressions)
  /\ UNCHANGED notQuery

Not(expressions) ==
  /\ q_op' = "not_"
  /\ q_args' = expressions
  /\ q_out' = not_(expressions)
  /\ UNCHANGED notQuery

QueryInit ==
  /\ QueryIdle
  /\ TransportIdle
  /\ ChunkIdle
  /\ AppIdle
  /\ MetaIdle
  /\ FetchIdle

QueryNext ==
  \/ \E expressions \in TuplesUpTo(Exprs, MaxExprs) : And(expressions)
  \/ \E expressions \in TuplesUpTo(Exprs, MaxExprs) : Or(expressions)
  \/ \E expressions \in TuplesUpTo(Exprs, MaxExprs) : Not(expressions)

SpecQuery == QueryInit /\ [][QueryNext]_vars

\* the requests in flight: a POST awaiting its response, or a GET awaiting its
\* response or streaming its body
InFlight == {i \in DOMAIN f_tasks : f_tasks[i].pc \in {"request", "writing"}}

\* C3: in the record-chunk engine and in the attachment engine, at every
\* moment of a batch at most max_concurrency requests are in flight, whatever
\* the number of chunks or jobs.
C3_InFlightAtMostMaxConcurrency ==
  f_mode \in {"records", "attachments"} => Cardinality(InFlight) <= f_max

C3_Witness ==
  /\ f_mode = "records"
  /\ Len(f_tasks) > f_max
  /\ Cardinality(InFlight) = f_max
  /\ \E i \in DOMAIN f_tasks : f_tasks[i].pc = "created"

FailedChunks == {i \in DOMAIN f_tasks : f_tasks[i].pc = "failed"}

\* C4: in the record-chunk engine, when a chunk has failed for good the call
\* download_records_to_csv ends by raising that chunk's error: it returns no
\* row list and writes no CSV, even when every other chunk succeeded.
C4_FailedChunkFailsCall ==
  (f_mode = "records" /\ f_main \in {"returned", "raised"}) =>
    /\ (FailedChunks # {}) =>
         /\ f_main = "raised"
         /\ f_result.kind = "error"
         /\ f_result.task \in FailedChunks
         /\ f_csv = None
    /\ f_main = "returned" => (FailedChunks = {} /\ f_result.kind = "ok")
    /\ f_main = "raised" => FailedChunks # {}

C4_Witness ==
  /\ f_mode = "records"
  /\ f_main = "raised"
  /\ Len(f_tasks) > 1
  /\ Cardinality(FailedChunks) = 1
  /\ \A i \in DOMAIN f_tasks : i \notin FailedChunks => f_tasks[i].pc = "done" /\ f_tasks[i].rows > 0
  /\ f_csv = None

\* the task found its destination path existing when it ran
FoundExisting(t) == t.seen \notin {"none", "absent"}

\* C11: in the attachment engine, a job whose destination path exists when
\* its task runs sends no request and never opens the file; a file that was
\* there before the batch keeps its content; and the job is in the output list
\* the batch returns.
C11_ExistingPathSkipsDownload ==
  f_mode = "attachments" =>
    \A i \in DOMAIN f_tasks :
      FoundExisting(f_tasks[i]) =>
        /\ f_tasks[i].pc = "skipped"
        /\ f_tasks[i].sent = 0
        /\ ~f_tasks[i].wrote
        /\ f_tasks[i].seen = "old" => f_files[f_tasks[i].path] = "old"
        /\ f_main = "returned" =>
             /\ f_result.kind = "ok"
             /\ i \in DOMAIN f_result.value
             /\ f_result.value[i] = f_tasks[i].path

C11_Witness ==
  /\ f_mode = "attachments"
  /\ f_main = "returned"
  /\ \E i, j \in DOMAIN f_tasks :
       /\ f_tasks[i].seen = "old" /\ f_tasks[i].pc = "skipped" /\ f_tasks[i].sent = 0
       /\ f_files[f_tasks[i].path] = "old"
       /\ f_result.value[i] = f_tasks[i].path
       /\ f_tasks[j].pc = "done" /\ f_tasks[j].sent = 1
       /\ f_files[f_tasks[j].path] = "new"

\* C12: in the attachment engine a failed download (an HTTP error or a write
\* error) never makes the batch raise: the batch returns only when every job
\* has finished, each job whose path was absent having sent its request, and
\* it returns the output list with one entry per job.
C12_FailedDownloadSparesSiblings ==
  f_mode = "attachments" =>
    /\ f_main \in {"running", "returned"}
    /\ f_error = 0
    /\ f_main = "returned" =>
         /\ f_result.kind = "ok"
         /\ DOMAIN f_result.value = DOMAIN f_tasks
         /\ \A i \in DOMAIN f_tasks :
              /\ f_tasks[i].pc \in {"done", "failed", "skipped"}
              /\ f_tasks[i].seen = "absent" => f_tasks[i].sent = 1
              /\ f_tasks[i].pc = "done" => f_tasks[i].wrote

C12_Witness ==
  /\ f_mode = "attachments"
  /\ f_main = "returned"
  /\ f_result.kind = "ok"
  /\ \E i, k \in DOMAIN f_tasks :
       /\ f_tasks[i].pc = "failed" /\ f_tasks[i].sent = 1
       /\ f_tasks[k].pc = "done" /\ f_files[f_tasks[k].path] = "new"


(***************************************************************************)
(* QuickBaseTransport._make_request: which failures are retried, and the   *)
(* sleeps between attempts                                                 *)
(***************************************************************************)

Is4xxNot429(r) == r.kind = "resp" /\ r.status \in 400..499 /\ r.status # 429

\* C13 as stated: a response with a 4xx status other than 429 ends the call
\* at once: the call raises on that attempt, with no sleep after it and no
\* further attempt; when it answers the first attempt, that is the only one.
C13_ClientErrorFailsImmediately ==
  \A i \in DOMAIN t_calls :
    Is4xxNot429(t_calls[i]) =>
      /\ i = Len(t_calls)
      /\ Len(t_sleeps) = i - 1
      /\ t_pc = "raised"

\* the Retry-After header of a response, in tenths of a second (0: no header)
RetryAfterTenths(r) == IF r.kind = "resp" THEN r.retry_after * 10 ELSE 0

\* C14 as stated: the sleep that follows a failed response carrying a
\* Retry-After header lasts the Retry-After value.
C14_RetryAfterOverridesBackoff ==
  \A i \in DOMAIN t_sleeps :
    RetryAfterTenths(t_calls[i]) # 0 => t_sleeps[i].wait = RetryAfterTenths(t_calls[i])

\* the pre-jitter delays 1 s, 2 s, 4 s, 8 s after failed attempts 0..3, in
\* tenths of a second
ExpectedDelays == <<10, 20, 40, 80>>
FailedCalls == {i \in DOMAIN t_calls : FailedRequest(t_calls[i])}

\* C20: the k-th sleep of a call (k = 0..3) has the pre-jitter delay
\* min(64 s, 1 s * 2^k); the delays never decrease and never exceed 64 s; the
\* jittered wait lies between half and one and a half times the delay; and
\* there is exactly one sleep after every failed attempt except the fifth.
C20_BackoffDoublesFromOneSecond ==
  /\ Len(t_sleeps) <= 4
  /\ \A k \in DOMAIN t_sleeps :
       /\ t_sleeps[k].backoff = ExpectedDelays[k]
       /\ t_sleeps[k].backoff <= 640
       /\ k > 1 => t_sleeps[k - 1].backoff <= t_sleeps[k].backoff
       /\ 2 * t_sleeps[k].wait >= t_sleeps[k].backoff
       /\ 2 * t_sleeps[k].wait <= 3 * t_sleeps[k].backoff
       /\ FailedRequest(t_calls[k])
  /\ Len(t_sleeps) = Cardinality(FailedCalls \ {5})
  /\ t_pc = "attempt" => Len(t_sleeps) = Len(t_calls)

C20_Witness ==
  /\ t_pc = "raised"
  /\ Len(t_calls) = 5
  /\ AllFailed
  /\ Len(t_sleeps) = 4
  /\ t_sleeps[4].backoff = 80
  /\ t_sleeps[4].wait = 120


(***************************************************************************)
(* QuickBaseClient._fetch_chunk: the retry policy of one chunk             *)
(***************************************************************************)

Sleeping(t) == t.pc = "sleeping"

\* C15 as stated: a chunk fetch retries on 429, 502 or 503 with Transport's
\* policy: at most max_attempts = 5 requests per chunk, and before a retry the
\* pre-jitter delay min(max_delay, delay * 2^attempt) of Transport.
C15_ChunkRetriesLikeTransport ==
  f_mode = "records" =>
    \A i \in DOMAIN f_tasks :
      /\ f_tasks[i].sent <= max_attempts
      /\ Sleeping(f_tasks[i]) => f_tasks[i].cause \in {429, 502, 503}
      /\ (Sleeping(f_tasks[i]) /\ f_tasks[i].delay # 0) =>
           f_tasks[i].delay = backoff(f_tasks[i].attempt)

\* the pre-jitter delays 0.5 s, 1 s, 2 s, 4 s, 8 s before retries 1..5 of a
\* chunk, in tenths of a second
ChunkDelays == <<5, 10, 20, 40, 80>>

\* C15 amended: a chunk fetch retries on 429, 502 or 503 with a policy of its
\* own: at most 5 retries, so at most 6 requests per chunk; before retry
\* number k + 1 it sleeps the Retry-After value when the response has one,
\* and otherwise min(10 s, 0.5 s * 2^k) times a factor between 0.8 and 1.2.
C15_ChunkRetriesWithOwnPolicy ==
  f_mode = "records" =>
    \A i \in DOMAIN f_tasks :
      /\ f_tasks[i].sent <= 6
      /\ f_tasks[i].pc \in {"request", "sleeping"} =>
           f_tasks[i].sent = f_tasks[i].attempt + 1
      /\ Sleeping(f_tasks[i]) =>
           /\ f_tasks[i].cause \in {429, 502, 503}
           /\ f_tasks[i].attempt \in 0..4
           /\ IF f_tasks[i].delay = 0
              THEN f_tasks[i].wait = 30
              ELSE /\ f_tasks[i].delay = ChunkDelays[f_tasks[i].attempt + 1]
                   /\ f_tasks[i].delay <= 100
                   /\ 10 * f_tasks[i].wait >= 8 * f_tasks[i].delay
                   /\ 10 * f_tasks[i].wait <= 12 * f_tasks[i].delay

C15_Witness ==
  /\ f_mode = "records"
  /\ \E i, j \in DOMAIN f_tasks :
       /\ f_tasks[i].pc = "request" /\ f_tasks[i].sent = 6
       /\ Sleeping(f_tasks[j]) /\ f_tasks[j].delay = 80 /\ f_tasks[j].wait = 96


(***************************************************************************)
(* QuickBaseClient.download_records_to_csv: record_limit                   *)
(***************************************************************************)

\* C16 as stated, for a record_limit of at least 1: when record_limit is
\* given and is below the table's size, the batches partition
\* [0, record_limit): every batch ends at or before index record_limit, and
\* the rows requested number at most record_limit.
C16_NoRowRequestedPastRecordLimit ==
  (c_pc = "batched" /\ f_mode = "idle"
     /\ c_record_limit # None /\ c_record_limit >= 1 /\ c_record_limit < c_size) =>
    /\ \A i \in DOMAIN c_batches : Offset(i) + Top(i) <= c_record_limit
    /\ SumTops(Len(c_batches)) <= c_record_limit


(***************************************************************************)
(* QuickBaseClient.download_records_to_csv: an export with no record       *)
(***************************************************************************)

\* the call returned and no chunk had a row
ReturnedNoRecord ==
  /\ f_mode = "records"
  /\ f_main = "returned"
  /\ \A i \in DOMAIN f_tasks : f_tasks[i].rows = 0

\* C17 as stated: when the export matches no record (the table is empty, or
\* every chunk returns no row) the call returns the empty result and has
\* created nothing: no CSV file, and no output directory either.
C17_EmptyExportCreatesNothing ==
  ReturnedNoRecord =>
    /\ f_result = [kind |-> "ok", value |-> "", rows |-> 0]
    /\ f_csv = None
    /\ ~f_dir


(***************************************************************************)
(* QuickBaseMetaCache.get_field_id                                         *)
(***************************************************************************)

\* the last call was get_field_id and it obtained the table's field map
LastLookedUpLabel ==
  /\ m_last.op = "get_field_id"
  /\ m_last.key # <<>>
  /\ m_last.kind \in {"ok", "InputError"}

\* the field map of the table the last call resolved, as cached
LastFieldMap == m_cache[m_last.key[1]][m_last.key[2]].fields

\* C18 as stated: get_field_id looks the label up ignoring case: for every
\* label L of the table's field map that equals the argument ignoring case
\* it returns the id stored for L, and it fails with InputError, listing the
\* labels of the map, exactly when no label equals the argument ignoring case.
C18_FieldIdOfLabelIgnoringCase ==
  LastLookedUpLabel =>
    /\ \A i \in DOMAIN LastFieldMap :
         EqIgnoreCase(LastFieldMap[i].key, m_last.label) =>
           /\ m_last.kind = "ok"
           /\ m_last.value = LastFieldMap[i].value.id
    /\ (m_last.kind = "InputError") =
         (\A i \in DOMAIN LastFieldMap : ~EqIgnoreCase(LastFieldMap[i].key, m_last.label))
    /\ m_last.kind = "InputError" =>
         m_last.value = [options |-> [i \in DOMAIN LastFieldMap |-> LastFieldMap[i].key]]

(***************************************************************************)
(* QueryHelper.and_ / or_ / not_                                           *)
(***************************************************************************)

RECURSIVE Glued(_, _, _)
\* the first n expressions of xs written one after the other with the token
\* tok between consecutive ones
Glued(xs, tok, n) ==
  IF n = 1 THEN xs[1] ELSE Glued(xs, tok, n - 1) \o tok \o xs[n]

\* C19 as stated: not_ applied to an expression e returns "NOT " followed by
\* e, and and_ / or_ return their sub-expressions joined by the bare tokens
\* AND / OR with no separator space.
C19_NotPrefixesAndOrJoin ==
  /\ (q_op = "not_" /\ Len(q_args) = 1) =>
       q_out = <<"N", "O", "T", " ">> \o q_args[1]
  /\ (q_op = "and_" /\ Len(q_args) >= 1) =>
       q_out = Glued(q_args, <<"A", "N", "D">>, Len(q_args))
  /\ (q_op = "or_" /\ Len(q_args) >= 1) =>
       q_out = Glued(q_args, <<"O", "R">>, Len(q_args))

\* the and_ / or_ half of C19 alone
C19_AndOrJoinBare ==
  /\ (q_op = "and_" /\ Len(q_args) >= 1) =>
       q_out = Glued(q_args, <<"A", "N", "D">>, Len(q_args))
  /\ (q_op = "or_" /\ Len(q_args) >= 1) =>
       q_out = Glued(q_args, <<"O", "R">>, Len(q_args))

(***************************************************************************)
(* QuickBaseMetaCache: the cache as a whole                                *)
(***************************************************************************)

\* the (app name, table name) keys of the table entries of a cache
EntryKeys(cache) == {k \in AppNames \X TableNames :
                       k[1] \in DOMAIN cache /\ k[2] \in DOMAIN cache[k[1]]}
EntryOf(cache, k) == cache[k[1]][k[2]]

\* this step is a metadata call returning or raising
IsMetaCall == m_calls' = m_calls + 1

\* C21: every cached table entry whose field map is non-empty has its id and
\* its size set, and a call that requests a field listing has first listed
\* the tables and holds, when it ends, a cached entry for the table it
\* resolved whose id is the table the fields were requested for.
C21_ResolvedBeforeFields ==
  /\ \A k \in EntryKeys(m_cache) :
       EntryOf(m_cache, k).fields # EmptyDict =>
         /\ EntryOf(m_cache, k).id \in TableIds
         /\ EntryOf(m_cache, k).size \in Nat
  /\ \A i \in ReqsTo(m_last.reqs, "fields") :
       /\ \E j \in OkReqsTo(m_last.reqs, "tables") : j < i
       /\ m_last.key \in EntryKeys(m_cache)
       /\ EntryOf(m_cache, m_last.key).id = m_last.reqs[i].arg
       /\ EntryOf(m_cache, m_last.key).size \in Nat

C21_Witness ==
  /\ m_last.op = "get_fields"
  /\ ~m_last.cached_before
  /\ m_last.key \in EntryKeys(m_cache)
  /\ EntryOf(m_cache, m_last.key).fields # EmptyDict
  /\ ReqsTo(m_last.reqs, "fields") # {}

\* the label map of a field listing of n fields (the labels of FieldPool are
\* distinct)
ExpectedMap(n) ==
  [i \in 1..n |-> [key |-> FieldPool[i].label,
                   value |-> [id |-> FieldPool[i].id, type |-> FieldPool[i].fieldType]]]

\* C22 as stated: the field map of a cached table is fetched once: once it is
\* non-empty it never changes.
C22_FieldMapFetchedOnce ==
  [][\A k \in EntryKeys(m_cache) :
       EntryOf(m_cache, k).fields # EmptyDict =>
         /\ k \in EntryKeys(m_cache')
         /\ EntryOf(m_cache', k).fields = EntryOf(m_cache, k).fields]_vars

\* the field map of entry k changes in this step
FieldsChange(k) ==
  /\ m_cache' # m_cache
  /\ EntryOf(m_cache', k).fields #
       (IF k \in EntryKeys(m_cache) THEN EntryOf(m_cache, k).fields ELSE EmptyDict)

\* C22 amended: the field map of a cached table is always either empty or the
\* complete label map of one field listing of the entry's table; it changes
\* only in a call that received a field listing for that table, and then to
\* the complete label map of that listing (get_fields replaces the map on
\* every call); a call whose field listing fails leaves every map unchanged.
C22_FieldMapWholeListing ==
  /\ [](\A k \in EntryKeys(m_cache) :
          \/ EntryOf(m_cache, k).fields = EmptyDict
          \/ \E n \in 1..Len(r_fields[EntryOf(m_cache, k).id]) :
               EntryOf(m_cache, k).fields = ExpectedMap(n))
  /\ [][\A k \in EntryKeys(m_cache') :
          FieldsChange(k) =>
            /\ IsMetaCall
            /\ m_last'.key = k
            /\ \E i \in OkReqsTo(m_last'.reqs, "fields") :
                 m_last'.reqs[i].arg = EntryOf(m_cache', k).id
            /\ EntryOf(m_cache', k).fields =
                 ExpectedMap(Len(r_fields[EntryOf(m_cache', k).id]))]_vars

\* get_fields replaced a non-empty map by the map of a longer listing
C22_Witness ==
  /\ m_last.op = "get_fields"
  /\ m_last.kind = "ok"
  /\ m_last.fields_before = ExpectedMap(1)
  /\ EntryOf(m_cache, m_last.key).fields = ExpectedMap(2)

\* C23: a table entry that is in the cache is never removed and its id and
\* size never change, whatever the realm does afterwards.
C23_EntriesKeepIdAndSize ==
  [][\A k \in EntryKeys(m_cache) :
       /\ k[1] \in DOMAIN m_cache' /\ k[2] \in DOMAIN m_cache'[k[1]]
       /\ EntryOf(m_cache', k).id = EntryOf(m_cache, k).id
       /\ EntryOf(m_cache', k).size = EntryOf(m_cache, k).size]_vars

\* a later call returned an entry whose size is no longer nextRecordId - 1
C23_Witness ==
  /\ m_last.op = "get_table"
  /\ m_last.kind = "ok"
  /\ m_last.cached_before
  /\ m_last.value.size # r_next[m_last.value.id] - 1
  /\ EntryOf(m_cache, m_last.key) = m_last.value

\* this step is a get_table call that raises
GetTableRaises ==
  /\ IsMetaCall
  /\ m_last'.op = "get_table"
  /\ m_last'.kind \in {"InputError", "TransportError"}

\* C28: a get_table call that fails, with InputError or with a transport
\* error on the table listing or on the table-detail request, adds no table
\* entry and changes no table entry.
C28_FailedGetTableKeepsEntries ==
  [][GetTableRaises =>
       /\ EntryKeys(m_cache') = EntryKeys(m_cache)
       /\ \A k \in EntryKeys(m_cache) : EntryOf(m_cache', k) = EntryOf(m_cache, k)]_vars

\* a get_table call failed on its table-detail request while another table
\* was cached
C28_Witness ==
  /\ m_last.op = "get_table"
  /\ m_last.kind = "TransportError"
  /\ Cardinality(ReqsTo(m_last.reqs, "table")) = 1
  /\ EntryKeys(m_cache) # {}

\* C29 as stated: the entry get_table returns has the id of the table that
\* the argument matched in the listing fetched by that call; for an argument
\* that is a table id, that id.
C29_ReturnedIdIsMatchedId ==
  (m_last.op = "get_table" /\ m_last.kind = "ok") =>
    /\ m_last.value.id = m_last.matched
    /\ m_last.table \in TableIds => m_last.value.id = m_last.table

(***************************************************************************)
(* QuickBaseClient: chunk tasks and attachment tasks of one batch          *)
(***************************************************************************)

RecordsRunning == f_mode = "records" /\ f_main = "running"
Ended == f_main \in {"returned", "raised"}

\* C24 as stated: when the call fails because a chunk failed for good, no
\* other chunk task is cancelled in the middle of its request.
C24_InFlightChunksRunToCompletion ==
  [][(RecordsRunning /\ f_main' = "raised") =>
       \A i \in DOMAIN f_tasks :
         f_tasks[i].pc = "request" => f_tasks'[i].pc # "cancelled"]_vars

\* C25: there is exactly one chunk task per batch, bound to the body with
\* that batch's skip and top, and every request the task has posted, retries
\* included, carried that body; the body of a task never changes.
C25_EachTaskPostsItsOwnBatch ==
  /\ [](f_mode = "records" =>
          /\ Len(f_tasks) = Len(c_batches)
          /\ \A i \in DOMAIN f_tasks :
               /\ f_tasks[i].body = c_batches[i]
               /\ f_tasks[i].posted \subseteq {<<c_batches[i][1], c_batches[i][2]>>}
               /\ f_tasks[i].sent > 0 => f_tasks[i].posted # {})
  /\ [][f_mode = "records" =>
          \A i \in DOMAIN f_tasks : f_tasks'[i].body = f_tasks[i].body]_vars

\* two batches, and the task of the first has retried while the second ran
C25_Witness ==
  /\ f_mode = "records"
  /\ Len(f_tasks) >= 2
  /\ f_tasks[1].sent >= 2
  /\ f_tasks[2].sent >= 1
  /\ f_tasks[1].posted # f_tasks[2].posted

\* the tasks inside `async with sem`
InGuardedSection == {i \in DOMAIN f_tasks : f_tasks[i].pc \in {"request", "sleeping", "writing"}}

\* C26: while a batch runs, the free permits plus the tasks inside the
\* guarded section make max_concurrency (a task that sleeps before a retry
\* is inside), and when the batch has ended every permit is free.
C26_PermitsConserved ==
  /\ f_main = "running" => f_sem + Cardinality(InGuardedSection) = f_max
  /\ f_main = "running" => f_sem >= 0
  /\ Ended => f_sem = f_max /\ InGuardedSection = {}

\* a task was cancelled in its sleep before a retry: its permit is free again
C26_Witness ==
  /\ f_mode = "records"
  /\ f_main = "raised"
  /\ f_sem = f_max
  /\ \E i \in DOMAIN f_tasks : f_tasks[i].pc = "cancelled" /\ f_tasks[i].cause # 0

\* C27: a chunk task sends at most max_retries + 1 requests, and a batch of
\* chunks that runs eventually ends, by returning or by raising.
C27_ChunkBatchTerminates ==
  /\ [](f_mode = "records" =>
          \A i \in DOMAIN f_tasks : f_tasks[i].sent <= max_retries + 1)
  /\ (RecordsRunning ~> Ended)

\* a batch ended after a task had waited for a permit held by a task that
\* sent max_retries + 1 requests
C27_Witness ==
  /\ f_mode = "records"
  /\ f_main = "returned"
  /\ f_max < Len(f_tasks)
  /\ \E i \in DOMAIN f_tasks : f_tasks[i].sent = max_retries + 1

\* C30 as stated: of the download tasks of one batch that have the same
\* destination path, at most one sends the download request and at most one
\* opens the file for writing.
C30_OneWriterPerPath ==
  f_mode = "attachments" =>
    \A i, j \in DOMAIN f_tasks :
      (i # j /\ f_tasks[i].path = f_tasks[j].path) =>
        /\ ~(f_tasks[i].sent > 0 /\ f_tasks[j].sent > 0)
        /\ ~(f_tasks[i].wrote /\ f_tasks[j].wrote)

====
